---- MODULE Spec2Model ----
(***************************************************************************)
(* Microburbs Development Explorer.                                        *)
(*                                                                         *)
(* Two state machines over one set of variables:                           *)
(*   SpecPure  the schema helpers of App.tsx (flatten, prettifyKey,        *)
(*             classifyValue, formatNumber, collectSections) and the       *)
(*             summaryCards memo, applied to inputs drawn from bounded     *)
(*             sets;                                                       *)
(*   Spec      the App component's Search / Demo handlers together with    *)
(*             the fetch cache of api.ts, one action per browser task.     *)
(*                                                                         *)
(* Representation.  A JavaScript string that is a key, a path, a title or  *)
(* a label is a sequence of one-character strings, so that split, replace  *)
(* and charAt can be computed.  A string that is only a value is a TLA+    *)
(* string (only its length is ever read).  A JavaScript value is a record  *)
(* tagged by t; an object is the sequence of its [key, value] pairs in     *)
(* Object.entries order.  Numbers are fixed-point, in tenths.              *)
(***************************************************************************)
EXTENDS Integers, Sequences, FiniteSets, TLC

VARIABLES
    \* ---- SpecPure ----
    pc,         \* which helper runs next on the drawn input
    doc,        \* the raw document handed to the memos
    flat,       \* result of flatten(doc)
    sections,   \* result of collectSections(doc)
    cards,      \* result of the summaryCards memo
    key,        \* the machine key handed to prettifyKey
    label,      \* prettifyKey(key)
    relabel,    \* prettifyKey(label)
    val,        \* the value handed to classifyValue
    kind,       \* classifyValue(val)
    \* ---- Spec (App + api) ----
    loading,    \* useState(false)
    error,      \* useState<string | null>(null)
    raw,        \* useState<DevData | null>(null)
    abortRef,   \* useRef<AbortController | null>(null): id of a call, or 0
    cache,      \* api.ts cache: query key -> id of the fetch promise
    fetches,    \* fetch promises: id -> [key, signal, state, data]
    calls,      \* handler invocations: id -> [op, awaits, state]
    rawBy,      \* id of the invocation whose setRaw(data) is displayed, or 0
    errorBy     \* id of the invocation whose setError(msg) is displayed, or 0

pureVars == <<pc, doc, flat, sections, cards, key, label, relabel, val, kind>>
appVars  == <<loading, error, raw, abortRef, cache, fetches, calls, rawBy, errorBy>>
vars     == <<pureVars, appVars>>

(***************************************************************************)
(* Characters                                                              *)
(***************************************************************************)
Lower == <<"a","b","c","d","e","f","g","h","i","j","k","l","m",
           "n","o","p","q","r","s","t","u","v","w","x","y","z">>
Upper == <<"A","B","C","D","E","F","G","H","I","J","K","L","M",
           "N","O","P","Q","R","S","T","U","V","W","X","Y","Z">>
Digit == <<"0","1","2","3","4","5","6","7","8","9">>

\* [a-z]
IsLower(c) == \E i \in DOMAIN Lower : Lower[i] = c
\* [A-Z]
IsUpper(c) == \E i \in DOMAIN Upper : Upper[i] = c
\* String.prototype.toUpperCase on one character
toUpperCase(c) == IF IsLower(c) THEN Upper[CHOOSE i \in DOMAIN Lower : Lower[i] = c] ELSE c
\* [._]
IsSeparator(c) == c = "." \/ c = "_"

RECURSIVE Digits(_)
\* String(n) for a natural number n, as characters
Digits(n) == IF n < 10 THEN <<Digit[n + 1]>> ELSE Digits(n \div 10) \o <<Digit[(n % 10) + 1]>>

RECURSIVE Ascending(_)
\* a finite set of numbers as an increasing sequence
Ascending(S) ==
    IF S = {} THEN <<>>
    ELSE LET lo == CHOOSE x \in S : \A y \in S : x <= y
         IN  <<lo>> \o Ascending(S \ {lo})

(***************************************************************************)
(* JavaScript values                                                       *)
(***************************************************************************)
Num(n)   == [t |-> "num", fp |-> "finite", v |-> n]      \* n tenths
NaN      == [t |-> "num", fp |-> "NaN", v |-> 0]
PosInf   == [t |-> "num", fp |-> "Infinity", v |-> 0]
NegInf   == [t |-> "num", fp |-> "-Infinity", v |-> 0]
NegZero  == [t |-> "num", fp |-> "-0", v |-> 0]
Str(s)   == [t |-> "str", v |-> s]
Bool(b)  == [t |-> "bool", v |-> b]
Null     == [t |-> "null"]
Undefined == [t |-> "undefined"]
Arr(items)   == [t |-> "arr", v |-> items]
Obj(entries) == [t |-> "obj", v |-> entries]

\* typeof v
TypeOf(v) ==
    CASE v.t = "num"  -> "number"
      [] v.t = "bool" -> "boolean"
      [] v.t = "str"  -> "string"
      [] v.t = "undefined" -> "undefined"
      [] OTHER -> "object"            \* null, arrays and objects

\* ToBoolean(v), as used by `v && ...` and `!obj`
Truthy(v) ==
    CASE v.t = "num"  -> v.fp \in {"Infinity", "-Infinity"} \/ (v.fp = "finite" /\ v.v # 0)
      [] v.t = "bool" -> v.v
      [] v.t = "str"  -> Len(v.v) > 0
      [] v.t \in {"null", "undefined"} -> FALSE
      [] OTHER -> TRUE

\* Array.isArray(v)
IsArray(v) == v.t = "arr"

\* Object.entries(obj) of a plain object
ObjectEntries(obj) == IF obj.t = "obj" THEN obj.v ELSE <<>>

(***************************************************************************)
(* flatten                                                                 *)
(***************************************************************************)
\* out[key] = v on a JavaScript object kept as its entry sequence: an
\* existing property keeps its place, a new one is appended
SetProp(out, k, v) ==
    IF \E i \in DOMAIN out : out[i][1] = k
    THEN [i \in DOMAIN out |-> IF out[i][1] = k THEN <<k, v>> ELSE out[i]]
    ELSE Append(out, <<k, v>>)

\* prefix ? `${prefix}.${k}` : k
JoinPath(prefix, k) == IF Len(prefix) > 0 THEN prefix \o <<".">> \o k ELSE k

\* variant: an empty object is stored rather than opened
flattenDescendsNonEmpty(v) == Truthy(v) /\ TypeOf(v) = "object" /\ ~IsArray(v) /\ Len(v.v) > 0
\* v && typeof v === 'object' && !Array.isArray(v)
flattenDescends(v) == Truthy(v) /\ TypeOf(v) = "object" /\ ~IsArray(v)

RECURSIVE flatten(_, _, _)
RECURSIVE flattenEach(_, _, _, _)
\* the forEach callback of flatten, applied to entries[i..]
flattenEach(entries, i, prefix, out) ==
    IF i > Len(entries) THEN out
    ELSE LET k == entries[i][1]
             v == entries[i][2]
             path == JoinPath(prefix, k)
         IN  flattenEach(entries, i + 1, prefix,
                 IF flattenDescends(v)
                 THEN flatten(v, path, out)
                 ELSE SetProp(out, path, v))

flatten(obj, prefix, out) ==
    IF ~Truthy(obj) THEN out ELSE flattenEach(ObjectEntries(obj), 1, prefix, out)

(***************************************************************************)
(* prettifyKey                                                             *)
(***************************************************************************)
RECURSIVE SplitFrom(_, _, _)
\* k.split(/[._]/g): cur is the token being read at position i
SplitFrom(k, i, cur) ==
    IF i > Len(k) THEN <<cur>>
    ELSE IF IsSeparator(k[i]) THEN <<cur>> \o SplitFrom(k, i + 1, <<>>)
    ELSE SplitFrom(k, i + 1, Append(cur, k[i]))

RECURSIVE CamelFirst(_, _)
\* variant: the pattern without its g flag, so only the first match is replaced
CamelFirst(x, i) ==
    IF i > Len(x) THEN <<>>
    ELSE IF i < Len(x) /\ IsLower(x[i]) /\ IsUpper(x[i + 1])
         THEN <<x[i], " ">> \o SubSeq(x, i + 1, Len(x))
         ELSE <<x[i]>> \o CamelFirst(x, i + 1)

RECURSIVE CamelFrom(_, _)
\* x.replace(/([a-z])([A-Z])/g, '$1 $2'): matches are taken left to right and
\* the scan resumes after the two characters of a match
CamelFrom(x, i) ==
    IF i > Len(x) THEN <<>>
    ELSE IF i < Len(x) /\ IsLower(x[i]) /\ IsUpper(x[i + 1])
         THEN <<x[i], " ", x[i + 1]>> \o CamelFrom(x, i + 2)
         ELSE <<x[i]>> \o CamelFrom(x, i + 1)

\* x.charAt(0).toUpperCase() + x.slice(1)
Capitalize(x) == IF Len(x) = 0 THEN <<>> ELSE <<toUpperCase(x[1])>> \o Tail(x)

RECURSIVE JoinFrom(_, _)
\* tokens.join(' ')
JoinFrom(tokens, i) ==
    IF i > Len(tokens) THEN <<>>
    ELSE IF i = Len(tokens) THEN tokens[i]
    ELSE tokens[i] \o <<" ">> \o JoinFrom(tokens, i + 1)

prettifyKey(k) ==
    LET tokens == SplitFrom(k, 1, <<>>)
        split  == [i \in DOMAIN tokens |-> CamelFrom(tokens[i], 1)]
        capped == [i \in DOMAIN split |-> Capitalize(split[i])]
    IN  JoinFrom(capped, 1)

(***************************************************************************)
(* classifyValue                                                           *)
(***************************************************************************)
ShortLimit == 120

\* variant: the length test lets 120 through
classifyValueInclusive(v) ==
    IF TypeOf(v) = "number" THEN "num"
    ELSE IF TypeOf(v) = "boolean" THEN "bool"
    ELSE IF TypeOf(v) = "string" /\ Len(v.v) > 0 /\ Len(v.v) <= ShortLimit THEN "short"
    ELSE "json"

classifyValue(v) ==
    IF TypeOf(v) = "number" THEN "num"
    ELSE IF TypeOf(v) = "boolean" THEN "bool"
    ELSE IF TypeOf(v) = "string" /\ Len(v.v) > 0 /\ Len(v.v) < ShortLimit THEN "short"
    ELSE "json"

(***************************************************************************)
(* formatNumber                                                            *)
(***************************************************************************)
GroupLimit == 1000

\* String(n) of a finite number of |n| tenths: the integer part, then the
\* one fraction digit when it is not zero
PlainDigits(a) ==
    Digits(a \div 10) \o (IF a % 10 = 0 THEN <<>> ELSE <<".", Digit[(a % 10) + 1]>>)

RECURSIVE GroupDigits(_)
\* the integer part in groups of three, as Intl.NumberFormat() renders it
\* under the en-US default locale
GroupDigits(n) ==
    IF n < 1000 THEN Digits(n)
    ELSE GroupDigits(n \div 1000) \o <<",">> \o
         <<Digit[((n % 1000) \div 100) + 1], Digit[((n % 100) \div 10) + 1], Digit[(n % 10) + 1]>>

Abs(n) == IF n < 0 THEN -n ELSE n

formatNumber(n) ==
    IF n.fp \in {"NaN", "Infinity", "-Infinity"}
    THEN (CASE n.fp = "NaN" -> <<"N","a","N">>
            [] n.fp = "Infinity" -> <<"I","n","f","i","n","i","t","y">>
            [] OTHER -> <<"-","I","n","f","i","n","i","t","y">>)
    ELSE IF n.fp = "finite" /\ Abs(n.v) >= GroupLimit * 10
    THEN (IF n.v < 0 THEN <<"-">> ELSE <<>>) \o GroupDigits(Abs(n.v) \div 10) \o
         (IF Abs(n.v) % 10 = 0 THEN <<>> ELSE <<".", Digit[(Abs(n.v) % 10) + 1]>>)
    ELSE IF n.fp = "-0" THEN <<"0">>
    ELSE (IF n.v < 0 THEN <<"-">> ELSE <<>>) \o PlainDigits(Abs(n.v))

(***************************************************************************)
(* collectSections                                                         *)
(***************************************************************************)
Overview == <<"O","v","e","r","v","i","e","w">>

\* variant: the labels start at #0 and the last element is lost
ArrayRowsFromZero(items) ==
    [i \in 1..(Len(items) - 1) |-> [k |-> <<"#">> \o Digits(i - 1), v |-> items[i]]]
\* v.map((item, i) => ({ k: `#${i + 1}`, v: item }))
ArrayRows(items) == [i \in DOMAIN items |-> [k |-> <<"#">> \o Digits(i), v |-> items[i]]]

\* variant: an empty array is taken for a scalar
isContainerNonEmpty(v) == Truthy(v) /\ TypeOf(v) = "object" /\ (IsArray(v) => Len(v.v) > 0)
\* v && typeof v === 'object'
isContainer(v) == Truthy(v) /\ TypeOf(v) = "object"

RECURSIVE collectSections(_, _)
RECURSIVE collectEach(_, _, _, _, _)
\* the for-of body of collectSections, applied to entries[i..]; yields the
\* two locals as they stand when the loop ends
collectEach(entries, i, basePath, secs, scalars) ==
    IF i > Len(entries) THEN [sections |-> secs, scalars |-> scalars]
    ELSE LET k == entries[i][1]
             v == entries[i][2]
             path == JoinPath(basePath, k)
         IN  IF isContainer(v)
             THEN IF IsArray(v)
                  THEN collectEach(entries, i + 1, basePath,
                           Append(secs, [title |-> k, path |-> path, rows |-> ArrayRows(v.v)]),
                           scalars)
                  ELSE collectEach(entries, i + 1, basePath,
                           secs \o collectSections(v, path), scalars)
             ELSE collectEach(entries, i + 1, basePath, secs,
                      Append(scalars, [k |-> k, v |-> v]))

\* variant: the level's scalar section is pushed last instead of unshifted
collectSectionsPush(obj, basePath) ==
    LET done == collectEach(ObjectEntries(IF Truthy(obj) THEN obj ELSE Obj(<<>>)),
                            1, basePath, <<>>, <<>>)
    IN  IF Len(done.scalars) > 0
        THEN done.sections \o
             <<[title |-> IF Len(basePath) > 0 THEN basePath ELSE Overview,
                path |-> basePath, rows |-> done.scalars]>>
        ELSE done.sections

collectSections(obj, basePath) ==
    LET done == collectEach(ObjectEntries(IF Truthy(obj) THEN obj ELSE Obj(<<>>)),
                            1, basePath, <<>>, <<>>)
    IN  IF Len(done.scalars) > 0
        THEN <<[title |-> IF Len(basePath) > 0 THEN basePath ELSE Overview,
                path |-> basePath, rows |-> done.scalars]>> \o done.sections
        ELSE done.sections

(***************************************************************************)
(* summaryCards                                                            *)
(***************************************************************************)
TextLimit == 80
TopNums == 3
TopText == 2

isNumberEntry(e) == TypeOf(e[2]) = "number"
isShortTextEntry(e) == TypeOf(e[2]) = "string" /\ Len(e[2].v) < TextLimit

RECURSIVE numericFrom(_, _)
\* Object.entries(flat).filter(([, v]) => typeof v === 'number')
numericFrom(fl, i) ==
    IF i > Len(fl) THEN <<>>
    ELSE (IF isNumberEntry(fl[i]) THEN <<fl[i]>> ELSE <<>>) \o numericFrom(fl, i + 1)

RECURSIVE shortTextFrom(_, _)
\* Object.entries(flat).filter(([, v]) => typeof v === 'string' && v.length < 80)
shortTextFrom(fl, i) ==
    IF i > Len(fl) THEN <<>>
    ELSE (IF isShortTextEntry(fl[i]) THEN <<fl[i]>> ELSE <<>>) \o shortTextFrom(fl, i + 1)

\* variant: the comparator with its operands swapped
compareAsc(a, b) == a[2].v - b[2].v
\* the comparator (a, b) => b[1] - a[1]
compareDesc(a, b) == b[2].v - a[2].v

RECURSIVE InsertSorted(_, _)
\* Array.prototype.sort is stable: an entry goes after every entry the
\* comparator does not put behind it
InsertSorted(sorted, e) ==
    IF Len(sorted) = 0 THEN <<e>>
    ELSE IF compareDesc(Head(sorted), e) <= 0
         THEN <<Head(sorted)>> \o InsertSorted(Tail(sorted), e)
         ELSE <<e>> \o sorted

RECURSIVE SortFrom(_, _, _)
SortFrom(s, i, sorted) ==
    IF i > Len(s) THEN sorted ELSE SortFrom(s, i + 1, InsertSorted(sorted, s[i]))

\* s.slice(0, n)
Slice(s, n) == SubSeq(s, 1, IF Len(s) < n THEN Len(s) ELSE n)

numericEntries(fl) == numericFrom(fl, 1)
shortText(fl) == shortTextFrom(fl, 1)

\* numericEntries.sort(...).slice(0, 3)
topNumEntries(fl) == Slice(SortFrom(numericEntries(fl), 1, <<>>), TopNums)
\* shortText.slice(0, 2)
topTextEntries(fl) == Slice(shortText(fl), TopText)

numCard(e)  == [label |-> prettifyKey(e[1]), value |-> formatNumber(e[2])]
textCard(e) == [label |-> prettifyKey(e[1]), value |-> e[2].v, hint |-> "text field"]

summaryCards(r) ==
    IF ~Truthy(r) THEN <<>>
    ELSE LET fl == flatten(r, <<>>, <<>>)
             nums == topNumEntries(fl)
             text == topTextEntries(fl)
         IN  [i \in DOMAIN nums |-> numCard(nums[i])] \o [i \in DOMAIN text |-> textCard(text[i])]

(***************************************************************************)
(* loadDemo: the demo payload                                              *)
(***************************************************************************)
kAddress  == <<"a","d","d","r","e","s","s">>
kZoning   == <<"z","o","n","i","n","g">>
kCode     == <<"c","o","d","e">>
kName     == <<"n","a","m","e">>
kFsr      == <<"f","l","o","o","r","S","p","a","c","e","R","a","t","i","o">>
kMaxH     == <<"m","a","x","H","e","i","g","h","t","M","e","t","e","r","s">>
kLot      == <<"l","o","t">>
kAreaSqm  == <<"a","r","e","a","S","q","m">>
kFrontage == <<"f","r","o","n","t","a","g","e","M">>
kDepth    == <<"d","e","p","t","h","M">>
kCorner   == <<"c","o","r","n","e","r">>
kOverlays == <<"o","v","e","r","l","a","y","s">>
kApplies  == <<"a","p","p","l","i","e","s">>
kNearby   == <<"n","e","a","r","b","y">>
kSchools  == <<"s","c","h","o","o","l","s","W","i","t","h","i","n","1","k","m">>
kTrains   == <<"t","r","a","i","n","S","t","a","t","i","o","n","s","W","i","t","h","i","n","1","k","m">>
kWalk     == <<"w","a","l","k","S","c","o","r","e">>
kTransit  == <<"t","r","a","n","s","i","t","S","c","o","r","e">>
kCouncil  == <<"c","o","u","n","c","i","l">>
kDevApps  == <<"d","e","v","A","p","p","s","L","a","s","t","1","2","m">>
kMedian   == <<"m","e","d","i","a","n","P","r","o","c","e","s","s","i","n","g","D","a","y","s">>

demo ==
    Obj(<< <<kAddress, Str("123 George St, Sydney NSW")>>,
           <<kZoning, Obj(<< <<kCode, Str("B8")>>,
                             <<kName, Str("Metropolitan Centre")>>,
                             <<kFsr, Num(105)>>,
                             <<kMaxH, Num(2350)>> >>)>>,
           <<kLot, Obj(<< <<kAreaSqm, Num(14500)>>,
                          <<kFrontage, Num(284)>>,
                          <<kDepth, Num(512)>>,
                          <<kCorner, Bool(TRUE)>> >>)>>,
           <<kOverlays, Arr(<< Obj(<< <<kName, Str("Heritage Conservation Area")>>,
                                      <<kApplies, Bool(TRUE)>> >>),
                               Obj(<< <<kName, Str("Flood Planning")>>,
                                      <<kApplies, Bool(FALSE)>> >>) >>)>>,
           <<kNearby, Obj(<< <<kSchools, Num(40)>>,
                             <<kTrains, Num(10)>>,
                             <<kWalk, Num(980)>>,
                             <<kTransit, Num(1000)>> >>)>>,
           <<kCouncil, Obj(<< <<kName, Str("City of Sydney")>>,
                              <<kDevApps, Num(7120)>>,
                              <<kMedian, Num(370)>> >>)>> >>)

(***************************************************************************)
(* Inputs of the pure helpers                                              *)
(***************************************************************************)
MaxDocSize == 3        \* fields of a structural document, summed over its levels
MaxCardFields == 4     \* root fields of a summary document
MaxKeyLen == 4         \* characters of a machine key
MaxStrLen == 125       \* characters of a classified string

RECURSIVE Rep(_, _)
\* the string of n copies of c
Rep(c, n) ==
    IF n = 0 THEN ""
    ELSE LET half == Rep(c, n \div 2)
         IN  half \o half \o (IF n % 2 = 1 THEN c ELSE "")

kA  == <<"a">>
kB  == <<"b">>
kAB == <<"a", ".", "b">>
kEmpty == <<>>
DocKeys == {kA, kB, kAB}

\* the values that end a walk: scalars, null and arrays (one array holds an
\* object and an array, which neither walk may open)
DocLeaves ==
    { Num(50), Null, Arr(<<>>),
      Arr(<< Obj(<< <<kA, Num(10)>> >>), Arr(<<Num(20)>>) >>) }

RECURSIVE EntriesOfSize(_, _, _)
\* the entry sequences with distinct keys drawn from keys that hold n fields
\* in all, nested ones included; vals[j] are the values that hold j fields
EntriesOfSize(n, keys, vals) ==
    IF n = 0 THEN {<<>>}
    ELSE UNION { UNION { { <<<<k, v>>>> \o rest :
                             v \in vals[j],
                             rest \in EntriesOfSize(n - 1 - j, keys \ {k}, vals) }
                         : j \in 0..(n - 1) }
                 : k \in keys }

RECURSIVE ValuesUpTo(_, _)
\* vals extended from size j to every size a field of a document can have
ValuesUpTo(j, vals) ==
    IF j >= MaxDocSize THEN vals
    ELSE ValuesUpTo(j + 1, vals @@ (j :> { Obj(e) : e \in EntriesOfSize(j, DocKeys, vals) }))

ValuesOfSize == ValuesUpTo(1, (0 :> (DocLeaves \cup {Obj(<<>>)})))

\* d is a document of at most MaxDocSize fields: empty, or a first field
\* followed by the others
IsStructDoc(d) ==
    \/ d = Obj(<<>>)
    \/ \E n \in 1..MaxDocSize, k \in DocKeys :
          \E j \in 0..(n - 1) :
             \E v \in ValuesOfSize[j], rest \in EntriesOfSize(n - 1 - j, DocKeys \ {k}, ValuesOfSize) :
                d = Obj(<<<<k, v>>>> \o rest)

\* documents for the summary: up to MaxCardFields root fields a, b, c, ...
\* whose values are numbers, short and long strings, null or a nested object
CardValues ==
    { Num(50), Num(200), Str(Rep("y", TextLimit - 1)), Str(Rep("z", TextLimit)), Null,
      Obj(<< <<kA, Num(1000)>>, <<kB, Str("w")>> >>) }

\* d is a summary document
IsCardDoc(d) ==
    \E n \in 0..MaxCardFields :
       \E vs \in [1..n -> CardValues] :
          d = Obj([i \in 1..n |-> <<<<Lower[i]>>, vs[i]>>])

\* documents with an empty key, which JoinPath treats as no prefix
EdgeDocs ==
    { Obj(<< <<kEmpty, Num(50)>> >>),
      Obj(<< <<kEmpty, Obj(<< <<kA, Num(50)>> >>)>>, <<kA, Str("x")>> >>),
      Obj(<< <<kA, Obj(<< <<kEmpty, Num(50)>>, <<kB, Arr(<<Null>>)>> >>)>> >>) }

\* d is a document the helpers are run on
IsDoc(d) == IsStructDoc(d) \/ IsCardDoc(d) \/ d \in EdgeDocs \/ d = demo

KeyChars == {"a", "A", "B", "1", ".", "_", " "}
Keys == UNION { [1..n -> KeyChars] : n \in 0..MaxKeyLen } \cup {kFsr, kDevApps}

Values ==
    { Num(0), Num(15), Num(-7), NegZero, NaN, PosInf, NegInf, Bool(TRUE), Bool(FALSE),
      Null, Undefined, Arr(<<>>), Arr(<<Num(10)>>), Obj(<<>>), Obj(<< <<kA, Num(10)>> >>) }
    \cup { Str(Rep("x", n)) : n \in 0..MaxStrLen }

(***************************************************************************)
(* SpecPure: a helper applied to a drawn input                             *)
(***************************************************************************)
NoDoc == Null

AppIdle ==
    /\ loading = FALSE
    /\ error = Null
    /\ raw = Null
    /\ abortRef = 0
    /\ cache = <<>>
    /\ fetches = <<>>
    /\ calls = <<>>
    /\ rawBy = 0
    /\ errorBy = 0

PureIdle ==
    /\ pc = "idle"
    /\ doc = NoDoc
    /\ flat = <<>>
    /\ sections = <<>>
    /\ cards = <<>>
    /\ key = <<>>
    /\ label = <<>>
    /\ relabel = <<>>
    /\ val = Undefined
    /\ kind = ""

InitPure ==
    /\ AppIdle
    /\ flat = <<>> /\ sections = <<>> /\ cards = <<>>
    /\ label = <<>> /\ relabel = <<>> /\ kind = ""
    /\ \/ pc = "flatten"  /\ IsDoc(doc) /\ key = <<>> /\ val = Undefined
       \/ pc = "prettify" /\ doc = NoDoc /\ key \in Keys /\ val = Undefined
       \/ pc = "classify" /\ doc = NoDoc /\ key = <<>> /\ val \in Values

\* const flat = flatten(raw)
Flatten ==
    /\ pc = "flatten"
    /\ flat' = flatten(doc, <<>>, <<>>)
    /\ pc' = "collect"
    /\ UNCHANGED <<doc, sections, cards, key, label, relabel, val, kind, appVars>>

\* const groups = collectSections(raw)
Collect ==
    /\ pc = "collect"
    /\ sections' = collectSections(doc, <<>>)
    /\ pc' = "cards"
    /\ UNCHANGED <<doc, flat, cards, key, label, relabel, val, kind, appVars>>

\* the summaryCards memo
Summarise ==
    /\ pc = "cards"
    /\ cards' = summaryCards(doc)
    /\ pc' = "summarised"
    /\ UNCHANGED <<doc, flat, sections, key, label, relabel, val, kind, appVars>>

\* prettifyKey(k)
Prettify ==
    /\ pc = "prettify"
    /\ label' = prettifyKey(key)
    /\ pc' = "again"
    /\ UNCHANGED <<doc, flat, sections, cards, key, relabel, val, kind, appVars>>

\* prettifyKey applied to its own result
PrettifyAgain ==
    /\ pc = "again"
    /\ relabel' = prettifyKey(label)
    /\ pc' = "prettified"
    /\ UNCHANGED <<doc, flat, sections, cards, key, label, val, kind, appVars>>

\* classifyValue(v)
Classify ==
    /\ pc = "classify"
    /\ kind' = classifyValue(val)
    /\ pc' = "classified"
    /\ UNCHANGED <<doc, flat, sections, cards, key, label, relabel, val, appVars>>

NextPure == Flatten \/ Collect \/ Summarise \/ Prettify \/ PrettifyAgain \/ Classify

SpecPure == InitPure /\ [][NextPure]_vars

(***************************************************************************)
(* api.ts: prettyError, the cache, fetchDevelopment                         *)
(***************************************************************************)
MaxCalls == 3          \* Search and Demo clicks in a run

\* qs(toArgs()) for the inputs the user may have typed: nothing, a query,
\* or a latitude
QueryKeys == {"", "q=a", "lat=1"}

NoReason   == [name |-> "", message |-> "", isError |-> FALSE]
AbortError == [name |-> "AbortError", message |-> "The user aborted a request.", isError |-> TRUE]
HttpError  == [name |-> "Error", message |-> "HTTP 500 Internal Server Error", isError |-> TRUE]
HtmlError  == [name |-> "SyntaxError", isError |-> TRUE,
               message |-> "Unexpected token '<', \"<!DOCTYPE \"... is not valid JSON"]
\* what a request can fail with on its own: a bad status, or a body that
\* is not JSON
Failures == {HttpError, HtmlError}

\* what r.json() can yield
Bodies == {Null, Obj(<<>>), Obj(<< <<kA, Num(50)>> >>)}

prettyError(e) ==
    IF e.name = "AbortError" THEN "Request cancelled."
    ELSE IF e.isError
         THEN IF e = HtmlError
              THEN "API endpoint not available in development mode. Try the \"Demo\" button instead."
              ELSE e.message
         ELSE "Unexpected error."

\* variant: a cached promise that was rejected is not reused
cacheHasLive(k) == k \in DOMAIN cache /\ fetches[cache[k]].state # "rejected"
\* cache.has(key)
cacheHas(k) == k \in DOMAIN cache

\* cache.set(key, req)
cacheSet(k, f) == [x \in DOMAIN cache \cup {k} |-> IF x = k THEN f ELSE cache[x]]

(***************************************************************************)
(* App: cancelInFlight, onSearch, onDemo                                   *)
(***************************************************************************)
\* controller.abort(): the pending request made with its signal is rejected
abort(fs, controller) ==
    [i \in DOMAIN fs |->
        IF controller # 0 /\ fs[i].signal = controller /\ fs[i].state = "pending"
        THEN [fs[i] EXCEPT !.state = "rejected", !.reason = AbortError]
        ELSE fs[i]]

\* the component state a handler and its continuations work on
View == [loading |-> loading, error |-> error, raw |-> raw, abortRef |-> abortRef,
         calls |-> calls, rawBy |-> rawBy, errorBy |-> errorBy]

\* onSearch after its await, for invocation c whose promise has settled
resumeSearch(st, fs, c) ==
    LET f == fs[st.calls[c].fetch]
        settled == IF f.state = "fulfilled"
                   THEN [st EXCEPT !.raw = f.data, !.rawBy = c]
                   ELSE [st EXCEPT !.error = Str(prettyError(f.reason)), !.errorBy = c]
    IN  [settled EXCEPT !.loading = FALSE, !.abortRef = 0, !.calls[c].state = "done"]

\* onDemo after its await, for invocation c
resumeDemo(st, c) ==
    [st EXCEPT !.raw = demo, !.rawBy = c, !.loading = FALSE, !.calls[c].state = "done"]

RECURSIVE drain(_, _, _, _)
\* the microtasks of one task: the continuations order[i..], one after another
drain(st, fs, order, i) ==
    IF i > Len(order) THEN st
    ELSE drain(IF st.calls[order[i]].op = "search"
               THEN resumeSearch(st, fs, order[i])
               ELSE resumeDemo(st, order[i]),
               fs, order, i + 1)

\* the invocations awaiting a promise that is pending in before and settled
\* in after, in the order they began to wait
awakened(cs, before, after) ==
    Ascending({c \in DOMAIN cs :
                 /\ cs[c].state = "awaiting"
                 /\ cs[c].op = "search"
                 /\ cs[c].fetch \in DOMAIN before
                 /\ before[cs[c].fetch].state = "pending"
                 /\ after[cs[c].fetch].state # "pending"})

\* setError(null); setLoading(true); setRaw(null); cancelInFlight()
begin(st) ==
    [st EXCEPT !.error = Null, !.errorBy = 0, !.loading = TRUE,
               !.raw = Null, !.rawBy = 0, !.abortRef = 0]

Display(st) ==
    /\ loading' = st.loading
    /\ error' = st.error
    /\ raw' = st.raw
    /\ abortRef' = st.abortRef
    /\ calls' = st.calls
    /\ rawBy' = st.rawBy
    /\ errorBy' = st.errorBy

\* a click on Search with the inputs giving query key k, up to the end of
\* the task: the handler as far as its await, then every continuation the
\* abort made runnable
OnSearch(k) ==
    /\ Len(calls) < MaxCalls
    /\ LET c == Len(calls) + 1
           aborted == abort(fetches, abortRef)
           hit == cacheHas(k)
           f == IF hit THEN cache[k] ELSE Len(fetches) + 1
           issued == IF hit THEN aborted
                     ELSE Append(aborted, [key |-> k, signal |-> c, state |-> "pending",
                                           data |-> Null, reason |-> NoReason])
           st == [begin(View) EXCEPT
                     !.abortRef = c,
                     !.calls = Append(calls, [op |-> "search", key |-> k,
                                              fetch |-> f, state |-> "awaiting"])]
           \* a promise settled before this task resumes its awaiter first; the
           \* rejection of the aborted request reaches its awaiters after that
           first == IF hit /\ fetches[f].state # "pending" THEN <<c>> ELSE <<>>
           order == first \o awakened(st.calls, fetches, issued)
       IN  /\ fetches' = issued
           /\ cache' = IF hit THEN cache ELSE cacheSet(k, f)
           /\ Display(drain(st, issued, order, 1))
    /\ UNCHANGED pureVars

\* a click on Demo, up to the end of the task
OnDemo ==
    /\ Len(calls) < MaxCalls
    /\ LET c == Len(calls) + 1
           aborted == abort(fetches, abortRef)
           st == [begin(View) EXCEPT
                     !.calls = Append(calls, [op |-> "demo", key |-> "",
                                              fetch |-> 0, state |-> "awaiting"])]
           order == <<c>> \o awakened(st.calls, fetches, aborted)
       IN  /\ fetches' = aborted
           /\ Display(drain(st, aborted, order, 1))
    /\ UNCHANGED <<cache, pureVars>>

\* the response of request f arrives with a good status and a JSON body
Respond(f, body) ==
    /\ f \in DOMAIN fetches
    /\ fetches[f].state = "pending"
    /\ LET settled == [fetches EXCEPT
                          ![f].state = "fulfilled",
                          ![f].data = IF body = Null THEN Obj(<<>>) ELSE body]
       IN  /\ fetches' = settled
           /\ Display(drain(View, settled, awakened(calls, fetches, settled), 1))
    /\ UNCHANGED <<cache, pureVars>>

\* request f fails: a status that is not ok, or a body that does not parse
Fail(f, e) ==
    /\ f \in DOMAIN fetches
    /\ fetches[f].state = "pending"
    /\ LET settled == [fetches EXCEPT ![f].state = "rejected", ![f].reason = e]
       IN  /\ fetches' = settled
           /\ Display(drain(View, settled, awakened(calls, fetches, settled), 1))
    /\ UNCHANGED <<cache, pureVars>>

Init ==
    /\ PureIdle
    /\ loading = FALSE
    /\ error = Null
    /\ raw = Null
    /\ abortRef = 0
    /\ cache = <<>>
    /\ fetches = <<>>
    /\ calls = <<>>
    /\ rawBy = 0
    /\ errorBy = 0

Next ==
    \/ \E k \in QueryKeys : OnSearch(k)
    \/ OnDemo
    \/ \E f \in DOMAIN fetches, body \in Bodies : Respond(f, body)
    \/ \E f \in DOMAIN fetches, e \in Failures : Fail(f, e)

Spec == Init /\ [][Next]_vars

(***************************************************************************)
(* The document tree, read off the value itself                            *)
(***************************************************************************)
IsMapping(v) == v.t = "obj"
IsScalar(v) == v.t \notin {"obj", "arr"}

RECURSIVE LeafPaths(_, _)
\* the key sequences that lead from obj to a leaf through mappings only
LeafPaths(obj, ks) ==
    UNION { IF IsMapping(obj.v[i][2])
            THEN LeafPaths(obj.v[i][2], Append(ks, obj.v[i][1]))
            ELSE {Append(ks, obj.v[i][1])}
            : i \in DOMAIN obj.v }

RECURSIVE Dotted(_)
\* the keys of a path joined by dots
Dotted(ks) ==
    IF Len(ks) = 0 THEN <<>>
    ELSE IF Len(ks) = 1 THEN ks[1]
    ELSE ks[1] \o <<".">> \o Dotted(Tail(ks))

RECURSIVE ValueAt(_, _)
\* the value a key sequence leads to
ValueAt(obj, ks) ==
    IF Len(ks) = 0 THEN obj
    ELSE ValueAt(obj.v[CHOOSE i \in DOMAIN obj.v : obj.v[i][1] = ks[1]][2], Tail(ks))

RECURSIVE Levels(_, _, _)
\* the mappings reached from obj through mappings only, obj included, each
\* with the key sequence and the path that lead to it
Levels(obj, ks, path) ==
    {[keys |-> ks, path |-> path, obj |-> obj]} \cup
    UNION { Levels(obj.v[i][2], Append(ks, obj.v[i][1]), JoinPath(path, obj.v[i][1]))
            : i \in {j \in DOMAIN obj.v : IsMapping(obj.v[j][2])} }

FlatKeys(fl) == {fl[i][1] : i \in DOMAIN fl}

Flattened == pc \in {"collect", "cards", "summarised"}
Collected == pc \in {"cards", "summarised"}
Summarised == pc = "summarised"

(***************************************************************************)
(* C1: no value stored in flatten(D) is a non-array object: every stored   *)
(* value is a scalar, null or an array.                                    *)
(***************************************************************************)
C1_NoObjectValues ==
    Flattened => \A i \in DOMAIN flat : flat[i][2].t \in {"num", "bool", "str", "null", "arr"}

\* a document with a nested mapping and an array of objects has been flattened
C1_Witness ==
    /\ Flattened
    /\ \E i \in DOMAIN doc.v : IsMapping(doc.v[i][2])
    /\ \E i \in DOMAIN flat :
          /\ flat[i][2].t = "arr"
          /\ \E j \in DOMAIN flat[i][2].v : IsMapping(flat[i][2].v[j])

(***************************************************************************)
(* C7: the keys of flatten(D) are exactly the dotted paths of the leaves   *)
(* of D reachable without crossing an array, an array being one leaf; no   *)
(* two leaves share a flat path and no leaf is missing.                    *)
(***************************************************************************)
C7_FlatKeysAreLeafPaths ==
    Flattened =>
        /\ FlatKeys(flat) = {Dotted(ks) : ks \in LeafPaths(doc, <<>>)}
        /\ Len(flat) = Cardinality(LeafPaths(doc, <<>>))

(***************************************************************************)
(* Sections, read off the document                                         *)
(***************************************************************************)
RECURSIVE SelectFrom(_, _, _)
\* the entries of s at the positions in keep, in order
SelectFrom(s, i, keep) ==
    IF i > Len(s) THEN <<>>
    ELSE (IF i \in keep THEN <<s[i]>> ELSE <<>>) \o SelectFrom(s, i + 1, keep)

\* the scalar fields of a level as rows, in key order
ScalarRows(obj) ==
    LET own == SelectFrom(obj.v, 1, {i \in DOMAIN obj.v : IsScalar(obj.v[i][2])})
    IN  [i \in DOMAIN own |-> [k |-> own[i][1], v |-> own[i][2]]]

\* the rows of an array: its elements labelled #1..#n, left as they are
ElementRows(items) == [i \in DOMAIN items |-> [k |-> <<"#">> \o Digits(i), v |-> items[i]]]

\* the level's own section, present only if it has a scalar field
OwnSection(L) ==
    IF \E i \in DOMAIN L.obj.v : IsScalar(L.obj.v[i][2])
    THEN <<[title |-> IF L.path = <<>> THEN Overview ELSE L.path,
            path |-> L.path, rows |-> ScalarRows(L.obj)]>>
    ELSE <<>>

RECURSIVE ContainerSections(_, _)
\* what the container fields of a level contribute, field by field: an
\* array its one section, a mapping the section list of its own level
ContainerSections(L, i) ==
    IF i > Len(L.obj.v) THEN <<>>
    ELSE LET k == L.obj.v[i][1]
             v == L.obj.v[i][2]
         IN  (CASE v.t = "arr" -> <<[title |-> k, path |-> JoinPath(L.path, k),
                                     rows |-> ElementRows(v.v)]>>
                [] v.t = "obj" -> collectSections(v, JoinPath(L.path, k))
                [] OTHER -> <<>>)
             \o ContainerSections(L, i + 1)

Titles(secs) == [i \in DOMAIN secs |-> secs[i].title]

RECURSIVE SumRows(_, _)
\* the rows of the sections i.., counted
SumRows(secs, i) == IF i > Len(secs) THEN 0 ELSE Len(secs[i].rows) + SumRows(secs, i + 1)

\* the array-valued fields reached through mappings only, as key sequences
ArrayFields(d) == {ks \in LeafPaths(d, <<>>) : ValueAt(d, ks).t = "arr"}
\* the scalar fields reached through mappings only, as key sequences
ScalarFields(d) == {ks \in LeafPaths(d, <<>>) : IsScalar(ValueAt(d, ks))}
\* the levels that own at least one scalar field
ScalarLevels(d) ==
    {L \in Levels(d, <<>>, <<>>) : \E i \in DOMAIN L.obj.v : IsScalar(L.obj.v[i][2])}

(***************************************************************************)
(* C2: at every nesting level collectSections returns the level's own      *)
(* scalar section first (only if the level has a scalar field, rows in     *)
(* key order), then what its container fields produce in key order, an     *)
(* array its single section and a nested mapping its whole section list    *)
(* spliced in flat; the demo payload gives Overview, zoning, lot,          *)
(* overlays, nearby, council.                                              *)
(***************************************************************************)
C2_SectionOrder ==
    Collected =>
        /\ sections = OwnSection([keys |-> <<>>, path |-> <<>>, obj |-> doc])
                      \o ContainerSections([keys |-> <<>>, path |-> <<>>, obj |-> doc], 1)
        /\ \A L \in Levels(doc, <<>>, <<>>) :
              collectSections(L.obj, L.path)
                  = OwnSection(L) \o ContainerSections(L, 1)
        /\ doc = demo =>
              Titles(sections) = <<Overview, kZoning, kLot, kOverlays, kNearby, kCouncil>>

\* sectioned: a level whose scalar field comes after a nested mapping that
\* holds a scalar itself, so that the level's section is last made and first
C2_Witness ==
    /\ Collected
    /\ \E i, m \in DOMAIN doc.v :
          /\ i < m
          /\ IsMapping(doc.v[i][2]) /\ IsScalar(doc.v[m][2])
          /\ \E n \in DOMAIN doc.v[i][2].v : IsScalar(doc.v[i][2].v[n][2])
    /\ Len(sections) >= 2
    /\ sections[1].title = Overview

(***************************************************************************)
(* C3: collectSections(D) holds exactly one section for each level that    *)
(* owns a scalar field, exactly one for each array-valued field reached    *)
(* through mappings only (rows #1..#n, the elements not expanded), and     *)
(* none for a level with neither; the root's scalar section is titled      *)
(* "Overview".                                                             *)
(***************************************************************************)
C3_SectionsPerLevel ==
    Collected =>
        /\ Len(sections) = Cardinality(ScalarLevels(doc)) + Cardinality(ArrayFields(doc))
        /\ \A L \in ScalarLevels(doc) :
              \E i \in DOMAIN sections :
                  sections[i].path = L.path /\ sections[i].rows = ScalarRows(L.obj)
        /\ \A ks \in ArrayFields(doc) :
              \E i \in DOMAIN sections :
                  /\ sections[i].title = ks[Len(ks)]
                  /\ sections[i].rows = ElementRows(ValueAt(doc, ks).v)
        /\ \A i \in DOMAIN sections :
              \/ \E L \in ScalarLevels(doc) :
                    sections[i].path = L.path /\ sections[i].rows = ScalarRows(L.obj)
              \/ \E ks \in ArrayFields(doc) :
                    /\ sections[i].title = ks[Len(ks)]
                    /\ sections[i].rows = ElementRows(ValueAt(doc, ks).v)
        /\ (\E i \in DOMAIN doc.v : IsScalar(doc.v[i][2])) =>
              sections[1].title = Overview /\ sections[1].rows = ScalarRows(doc)

\* sectioned: a document with a scalar at the root, an array holding an
\* object, and a nested level without any scalar
C3_Witness ==
    /\ Collected
    /\ \E i \in DOMAIN doc.v : IsScalar(doc.v[i][2])
    /\ \E ks \in ArrayFields(doc) :
          \E j \in DOMAIN ValueAt(doc, ks).v : IsMapping(ValueAt(doc, ks).v[j])
    /\ \E L \in Levels(doc, <<>>, <<>>) : L \notin ScalarLevels(doc)

(***************************************************************************)
(* Row and card counts, read off the document                              *)
(***************************************************************************)
RECURSIVE SumLens(_, _)
\* the elements of the arrays at the key sequences S of d, counted
SumLens(d, S) ==
    IF S = {} THEN 0
    ELSE LET ks == CHOOSE x \in S : TRUE
         IN  Len(ValueAt(d, ks).v) + SumLens(d, S \ {ks})

ArrayElements(d) == SumLens(d, ArrayFields(d))

Min(a, b) == IF a < b THEN a ELSE b

NumIdx == {i \in DOMAIN flat : flat[i][2].t = "num"}
TextIdx == {i \in DOMAIN flat : flat[i][2].t = "str" /\ Len(flat[i][2].v) < 80}

(***************************************************************************)
(* C4 as stated: the rows of all sections of collectSections(D) number the *)
(* entries of flatten(D) that are scalars adjacent to the root, plus one   *)
(* per array element over all arrays.                                      *)
(***************************************************************************)
C4_RowsCountRootAdjacent ==
    Collected =>
        SumRows(sections, 1)
            = Cardinality({i \in DOMAIN flat :
                             /\ IsScalar(flat[i][2])
                             /\ \E j \in DOMAIN doc.v :
                                   doc.v[j][1] = flat[i][1] /\ IsScalar(doc.v[j][2])})
              + ArrayElements(doc)

(***************************************************************************)
(* C4 amended: the rows of all sections number the scalar fields of D at   *)
(* every level reached through mappings only, plus one per array element   *)
(* over all arrays reached through mappings only; when no two leaves of D  *)
(* share a flat path this is the number of entries of flatten(D) that are  *)
(* not arrays plus the array elements.                                     *)
(***************************************************************************)
C4_RowsCount ==
    Collected =>
        /\ SumRows(sections, 1) = Cardinality(ScalarFields(doc)) + ArrayElements(doc)
        /\ Len(flat) = Cardinality(LeafPaths(doc, <<>>)) =>
              SumRows(sections, 1)
                  = Cardinality({i \in DOMAIN flat : IsScalar(flat[i][2])}) + ArrayElements(doc)

\* sectioned: a document with a scalar below the root and an array of two
\* elements, one of them an object
C4_Witness ==
    /\ Collected
    /\ \E ks \in ScalarFields(doc) : Len(ks) >= 2
    /\ \E ks \in ArrayFields(doc) :
          /\ Len(ValueAt(doc, ks).v) = 2
          /\ \E j \in DOMAIN ValueAt(doc, ks).v : IsMapping(ValueAt(doc, ks).v[j])
    /\ SumRows(sections, 1) >= 3

(***************************************************************************)
(* C5: the summary cards are the numeric entries of flatten(raw) sorted    *)
(* descending by value and cut to the top 3, then the first 2 string       *)
(* entries of length < 80 in flatten order: never more than 5 cards,       *)
(* numeric before text, fewer when fewer qualify; for the demo payload the *)
(* first three are areaSqm (1450), devAppsLast12m (712), maxHeightMeters   *)
(* (235).                                                                  *)
(***************************************************************************)
C5_SummaryCards ==
    Summarised =>
        LET n == Min(3, Cardinality(NumIdx))
            m == Min(2, Cardinality(TextIdx))
            text == Ascending(TextIdx)
        IN  /\ Len(cards) = n + m
            /\ Len(cards) <= 5
            /\ \E sel \in [1..n -> NumIdx] :
                  /\ \A a, b \in 1..n : a < b =>
                        sel[a] # sel[b] /\ flat[sel[a]][2].v >= flat[sel[b]][2].v
                  /\ \A i \in NumIdx : (\A a \in 1..n : sel[a] # i) =>
                        \A a \in 1..n : flat[i][2].v <= flat[sel[a]][2].v
                  /\ \A a \in 1..n :
                        cards[a] = [label |-> prettifyKey(flat[sel[a]][1]),
                                    value |-> formatNumber(flat[sel[a]][2])]
            /\ \A b \in 1..m :
                  cards[n + b] = [label |-> prettifyKey(flat[text[b]][1]),
                                  value |-> flat[text[b]][2].v,
                                  hint |-> "text field"]
            /\ doc = demo =>
                  /\ cards[1] = [label |-> <<"L","o","t"," ","A","r","e","a"," ","S","q","m">>,
                                 value |-> <<"1",",","4","5","0">>]
                  /\ cards[2] = [label |-> <<"C","o","u","n","c","i","l"," ","D","e","v"," ",
                                             "A","p","p","s"," ","L","a","s","t","1","2","m">>,
                                 value |-> <<"7","1","2">>]
                  /\ cards[3] = [label |-> <<"Z","o","n","i","n","g"," ","M","a","x"," ",
                                             "H","e","i","g","h","t"," ","M","e","t","e","r","s">>,
                                 value |-> <<"2","3","5">>]

\* summarised: more than three numeric entries, not in descending order as
\* flattened, and more than two qualifying strings, cut to five cards
C5_Witness ==
    /\ Summarised
    /\ Cardinality(NumIdx) > 3
    /\ \E i, j \in NumIdx : i < j /\ flat[i][2].v < flat[j][2].v
    /\ Cardinality(TextIdx) > 2
    /\ Len(cards) = 5

(***************************************************************************)
(* C6: classifyValue is total and deterministic: numeric for every number  *)
(* (0, -0, NaN, Infinity included), boolean for true and false, short-text *)
(* exactly for strings of length 1..119, structured for everything else.   *)
(***************************************************************************)
C6_Classify ==
    pc = "classified" =>
        kind = (CASE val.t = "num" -> "num"
                  [] val.t = "bool" -> "bool"
                  [] val.t = "str" /\ Len(val.v) >= 1 /\ Len(val.v) <= 119 -> "short"
                  [] OTHER -> "json")

\* classified: the longest short string
C6_Witness == pc = "classified" /\ val.t = "str" /\ Len(val.v) = 119 /\ kind = "short"

(***************************************************************************)
(* C8 as stated: prettifyKey is not idempotent: some machine key k has     *)
(* prettifyKey(prettifyKey(k)) different from prettifyKey(k).  Stated once  *)
(* a key has been prettified twice, over every key that can be drawn.      *)
(***************************************************************************)
C8_NotIdempotent ==
    pc = "prettified" => \E k \in Keys : prettifyKey(prettifyKey(k)) # prettifyKey(k)

(***************************************************************************)
(* C8 amended: prettifyKey is idempotent on keys made of ASCII letters,    *)
(* digits, '.', '_' and spaces: prettifying a label again returns it       *)
(* unchanged.                                                              *)
(***************************************************************************)
C8_Idempotent == pc = "prettified" => relabel = label

\* prettified twice: a key with a separator and a camelCase boundary, whose
\* label differs from it
C8_Witness ==
    /\ pc = "prettified"
    /\ \E i \in DOMAIN key : IsSeparator(key[i])
    /\ \E i \in 1..(Len(key) - 1) : IsLower(key[i]) /\ IsUpper(key[i + 1])
    /\ label # key
    /\ relabel = label

(***************************************************************************)
(* C9: the fetch cache has no eviction: once fetchDevelopment has been     *)
(* called with a query key its entry is never removed or replaced, and     *)
(* every later call with that key returns the cached promise and issues no *)
(* new request, however the first request settled and whatever signal the  *)
(* later call passes.                                                      *)
(***************************************************************************)
C9_CacheKeepsPromises ==
    [][ /\ \A k \in DOMAIN cache : k \in DOMAIN cache' /\ cache'[k] = cache[k]
        /\ \A c \in DOMAIN calls' \ DOMAIN calls :
              (calls'[c].op = "search" /\ calls'[c].key \in DOMAIN cache) =>
                  /\ calls'[c].fetch = cache[calls'[c].key]
                  /\ Len(fetches') = Len(fetches) ]_vars

\* a later Search with the key of a request that was aborted has been given
\* the promise of that request
C9_Witness ==
    \E c1, c2 \in DOMAIN calls :
        /\ c1 < c2
        /\ calls[c1].op = "search" /\ calls[c2].op = "search"
        /\ calls[c1].fetch = calls[c2].fetch
        /\ fetches[calls[c1].fetch].signal = c1
        /\ fetches[calls[c1].fetch].reason = AbortError

(***************************************************************************)
(* C10: a request superseded by a later Search or Demo click never changes *)
(* the displayed state afterwards: its fulfilment never sets raw and its   *)
(* rejection (the abort rejection included) never sets error, so raw and   *)
(* error reflect only the most recent click and are never both set.        *)
(***************************************************************************)
C10_SupersededSilent ==
    /\ raw # Null => rawBy = Len(calls)
    /\ error # Null => errorBy = Len(calls)
    /\ ~(raw # Null /\ error # Null)

(***************************************************************************)
(* The requests behind the clicks                                          *)
(***************************************************************************)
\* the most recent click, 0 before the first
Latest == Len(calls)

\* the request the most recent click is waiting for is still pending
LatestPending ==
    /\ Latest > 0
    /\ calls[Latest].op = "search"
    /\ fetches[calls[Latest].fetch].state = "pending"

\* the requests in flight that no abort has reached
InFlight == {f \in DOMAIN fetches : fetches[f].state = "pending"}

(***************************************************************************)
(* C11: under any interleaving of Search and Demo clicks and settlements,  *)
(* loading is true in every state where the request started by the most    *)
(* recent click is still pending, and it becomes false only in a step in   *)
(* which the most recent click's request settles.                          *)
(***************************************************************************)
C11_LoadingFollowsLatest ==
    [][ /\ LatestPending' => loading'
        /\ (loading /\ ~loading') =>
              /\ calls'[Len(calls')].state = "done"
              /\ Len(calls') > Len(calls) \/ calls[Len(calls)].state = "awaiting" ]_vars

\* at most one request is in flight without having been aborted
AtMostOneInFlight == Cardinality(InFlight) <= 1

\* abortRef.current is the controller of every such request
AbortRefHoldsController == \A f \in InFlight : abortRef = fetches[f].signal

(***************************************************************************)
(* C12: under any interleaving of Search clicks and settlements, at most   *)
(* one search request is in flight without having been aborted, and        *)
(* whenever such a request is pending abortRef.current holds the           *)
(* AbortController whose signal it was made with, so that the next Search  *)
(* or Demo click aborts it: no request pending before a click is pending   *)
(* after it.                                                               *)
(***************************************************************************)
C12_OneInFlightAbortable ==
    [][ /\ AtMostOneInFlight'
        /\ AbortRefHoldsController'
        /\ Len(calls') > Len(calls) => \A f \in InFlight : fetches'[f].state # "pending" ]_vars
====
